---- MODULE Spec2Model ----
(***************************************************************************)
(* A model of langchain-log-tool: the Loki query tool (loki_tool.py,       *)
(* query_loki_logs) and the interactive loop of agent.py / agent-azure.py. *)
(*                                                                         *)
(* Times are whole seconds.  The tool multiplies its two clock readings    *)
(* by 1e9 and truncates them with int(); the model keeps the "start" and   *)
(* "end" parameters in seconds (the common factor 1e9 is left out because  *)
(* TLC's integers are 32 bits wide).  A Python string built by an          *)
(* f-string is a sequence of its parts, so that "contains" and "is         *)
(* exactly" are decided on what the code concatenates.                     *)
(***************************************************************************)
EXTENDS Integers, Sequences, FiniteSets, TLC

VARIABLES
    zone,          \* the machine's local time zone (environment)
    pc,            \* position inside query_loki_logs
    args,          \* the call's arguments
    end_time,      \* line 40, seconds
    start_time,    \* line 41, seconds
    stdout,        \* diagnostic lines printed by the current call
    requests,      \* requests.get calls issued by the current call
    response,      \* what requests.get came back with (<<>>: nothing yet)
    result,        \* how the call ended: returned a string, or raised
    loop_pc,       \* position inside the interactive loop
    user_input,    \* the line input() returned last
    transcript     \* what the loop has done so far

tool_vars == <<zone, pc, args, end_time, start_time, stdout, requests, response, result>>
loop_vars == <<loop_pc, user_input, transcript>>
vars == <<zone, pc, args, end_time, start_time, stdout, requests, response, result,
          loop_pc, user_input, transcript>>

(***************************************************************************)
(* Bounds of the model.                                                    *)
(***************************************************************************)
MaxSeries == 2        \* entries of data.result in a response body
MaxSamples == 2       \* entries of one series' "values"
MaxMinutesBack == 1000 \* minutes before now that datetime can still represent
MaxLines == 3         \* lines the interactive loop reads in one run

(***************************************************************************)
(* Configuration and inputs.                                               *)
(***************************************************************************)
LOKI_URL == "http://localhost:3100"

api_url == <<LOKI_URL, "/loki/api/v1/query_range">>

Queries == {"{job=\"system_logs\"} |= \"error\"", "sum(count_over_time({job=\"system_logs\"}[5m]))"}

TimeRanges == {-5, 0, 1, 60, 90, MaxMinutesBack + 1000}

Limits == {-1, 0, 100}

Directions == {"backward", "forward", "sideways"}

AllArgs == [query : Queries, time_range_minutes : TimeRanges, limit : Limits,
            direction : Directions]

\* lines 17-19: the defaults of the signature
DefaultArgs == [query : {"{job=\"system_logs\"} |= \"error\""},
                time_range_minutes : {60}, limit : {100}, direction : {"backward"}]

NoArgs == [query |-> "", time_range_minutes |-> 0, limit |-> 0, direction |-> ""]

(***************************************************************************)
(* Local time.  datetime.now() is a naive local wall-clock time; a zone    *)
(* is its standard offset plus one daylight-saving transition at instant   *)
(* "at" that moves the wall clock by "shift" seconds.                      *)
(***************************************************************************)
Zones == {[name |-> "UTC", at |-> 200000, shift |-> 0],
          [name |-> "spring-forward", at |-> 200000, shift |-> 3600],
          [name |-> "fall-back", at |-> 200000, shift |-> -3600]}

\* clock readings, as seconds after the zone's transition: before it, in the hour
\* after it, and later
ClockReads == {-1800, 1800, 5400}

\* seconds between the two readings of lines 40 and 41
Jitters == {0, 1}

UtcOffset(u) == IF u < zone.at THEN 0 ELSE zone.shift

\* time.localtime(u), as seconds of naive wall-clock time
LocalTime(u) == u + UtcOffset(u)

MaxFoldSeconds == 24 * 3600

\* datetime.fromtimestamp(u).fold: 1 in the second pass through a repeated hour
Fold(u) ==
    LET probe1 == LocalTime(u - MaxFoldSeconds)
        trans == LocalTime(u) - probe1 - MaxFoldSeconds
    IN  IF trans < 0 /\ LocalTime(u + trans) = LocalTime(u) THEN 1 ELSE 0

\* datetime.timestamp() of the naive wall-clock time t with the given fold
Timestamp(t, fold) ==
    LET a == LocalTime(t) - t
        u1 == t - a
        t1 == LocalTime(u1)
        step == IF fold = 1 THEN MaxFoldSeconds ELSE -MaxFoldSeconds
        b == IF t1 = t THEN LocalTime(u1 + step) - (u1 + step) ELSE t1 - u1
        u2 == t - b
        t2 == LocalTime(u2)
    IN  IF t1 = t /\ a = b THEN u1
        ELSE IF t2 = t THEN u2
        ELSE IF t1 = t THEN u1
        ELSE IF fold = 1 THEN (IF u1 < u2 THEN u1 ELSE u2)
        ELSE (IF u1 > u2 THEN u1 ELSE u2)

\* line 40: datetime.now().timestamp(), the clock reading u
EndTime(u) == Timestamp(LocalTime(u), Fold(u))

\* line 41: datetime.now() - timedelta(minutes=m) raises OverflowError when the
\* result cannot be represented
WindowOverflows(m) == m > MaxMinutesBack \/ m < -MaxMinutesBack

\* line 41: (datetime.now() - timedelta(minutes=m)).timestamp(); the difference of
\* a naive datetime and a timedelta is wall-clock arithmetic, with fold 0
StartTime(u, m) == Timestamp(LocalTime(u) - m * 60, 0)

(***************************************************************************)
(* Exceptions.  A completion is what evaluating a piece of the body ends   *)
(* with: a value, or an exception of some class.                           *)
(***************************************************************************)
\* the classes an exception of class c is an instance of (its MRO)
Ancestors(c) ==
    CASE c = "ConnectionError" ->
            {"ConnectionError", "RequestException", "OSError", "Exception"}
      [] c = "HTTPError" ->
            {"HTTPError", "RequestException", "OSError", "Exception"}
      [] c = "requests.JSONDecodeError" ->
            {"requests.JSONDecodeError", "InvalidJSONError", "RequestException",
             "json.JSONDecodeError", "OSError", "ValueError", "Exception"}
      [] c = "json.JSONDecodeError" -> {"json.JSONDecodeError", "ValueError", "Exception"}
      [] c = "simplejson.JSONDecodeError" ->
            {"simplejson.JSONDecodeError", "ValueError", "Exception"}
      [] c = "KeyError" -> {"KeyError", "LookupError", "Exception"}
      [] c = "ValueError" -> {"ValueError", "Exception"}
      [] c = "OverflowError" -> {"OverflowError", "ArithmeticError", "Exception"}
      [] c = "BrokenPipeError" -> {"BrokenPipeError", "OSError", "Exception"}
      [] OTHER -> {c, "BaseException"}

NoValue == [kind |-> "none", text |-> <<>>, type |-> "", logs |-> <<>>, data |-> <<>>]

\* a plain string, as the sequence of its parts
Text(parts) == [kind |-> "text", text |-> parts, type |-> "", logs |-> <<>>, data |-> <<>>]

Value(v) == [exc |-> "none", msg |-> "", value |-> v]

Raise(c, m) == [exc |-> c, msg |-> m, value |-> NoValue]

Returned(v) == [status |-> "returned", exc |-> "none", value |-> v]

Propagated(c) == [status |-> "raised", exc |-> c, value |-> NoValue]

NoResult == [status |-> "none", exc |-> "none", value |-> NoValue]

\* lines 96-101 without the last handler
HandleNoCatchAll(c, response_text) ==
    IF "RequestException" \in Ancestors(c.exc) THEN
        Returned(Text(<<"Error connecting to Loki or API error: ", c.msg,
                        ". Check if Loki is running at ", LOKI_URL, ".">>))
    ELSE IF "json.JSONDecodeError" \in Ancestors(c.exc) THEN
        Returned(Text(<<"Error: Loki returned invalid JSON response. Response: ",
                        response_text>>))
    ELSE Propagated(c.exc)

\* lines 96-101 with a message that leaves the URL out
HandleNoUrl(c, response_text) ==
    IF "RequestException" \in Ancestors(c.exc) THEN
        Returned(Text(<<"Error connecting to Loki or API error: ", c.msg, ".">>))
    ELSE IF "json.JSONDecodeError" \in Ancestors(c.exc) THEN
        Returned(Text(<<"Error: Loki returned invalid JSON response. Response: ",
                        response_text>>))
    ELSE IF "Exception" \in Ancestors(c.exc) THEN
        Returned(Text(<<"An unexpected error occurred: ", c.msg>>))
    ELSE Propagated(c.exc)

\* lines 96-101: the except clauses, tried in order
Handle(c, response_text) ==
    IF "RequestException" \in Ancestors(c.exc) THEN
        Returned(Text(<<"Error connecting to Loki or API error: ", c.msg,
                        ". Check if Loki is running at ", LOKI_URL, ".">>))
    ELSE IF "json.JSONDecodeError" \in Ancestors(c.exc) THEN
        Returned(Text(<<"Error: Loki returned invalid JSON response. Response: ",
                        response_text>>))
    ELSE IF "Exception" \in Ancestors(c.exc) THEN
        Returned(Text(<<"An unexpected error occurred: ", c.msg>>))
    ELSE Propagated(c.exc)

\* lines 39-101: the try statement around a completion
Complete(c, response_text) ==
    IF c.exc = "none" THEN Returned(c.value) ELSE Handle(c, response_text)

(***************************************************************************)
(* Response bodies.                                                        *)
(***************************************************************************)
NsPerSecond == 1000000000

LineTexts == <<"first", "second", "third", "fourth">>

\* the k-th sample: its timestamp (nanoseconds in a stream, seconds in a series)
\* and its line or value
Sample(k) == [ts_ok |-> TRUE, ts |-> k * (NsPerSecond \div 2), text |-> LineTexts[k]]

\* a sample whose timestamp int() / float() cannot parse
BadSample == [ts_ok |-> FALSE, ts |-> 0, text |-> "lost"]

Oldest(n) == [k \in 1..n |-> Sample(k)]

Newest(n) == [k \in 1..n |-> Sample(n + 1 - k)]

\* the values of one series: up to MaxSamples samples, oldest or newest first
ValueLists == UNION {{Oldest(n), Newest(n)} : n \in 0..MaxSamples}

LabelSets == {<< <<"app", "nginx">> >>, << <<"job", "system_logs">>, <<"level", "error">> >>}

SeqsUpTo(S, n) == UNION {[1..k -> S] : k \in 0..n}

\* malformed result entries: no label object under "key", no "values", a
\* timestamp that cannot be parsed
MalformedItems(key) ==
    {[label_key |-> "none", labels |-> <<>>, has_values |-> TRUE, values |-> <<>>],
     [label_key |-> key, labels |-> << <<"app", "nginx">> >>, has_values |-> FALSE,
      values |-> <<>>],
     [label_key |-> key, labels |-> << <<"app", "nginx">> >>, has_values |-> TRUE,
      values |-> <<Sample(1), BadSample>>]}

\* result entries carrying their labels under "key"
Items(key) ==
    {[label_key |-> key, labels |-> l, has_values |-> TRUE, values |-> v] :
        l \in LabelSets, v \in ValueLists}
    \cup MalformedItems(key)

KeyOf(rt) == IF rt = "streams" THEN "stream" ELSE "metric"

ResultTypes == {"streams", "matrix", "vector", "scalar", "stream"}

JsonBody(d, rt, r, res) ==
    [is_json |-> TRUE, json_error |-> "none", text |-> "{...}", has_data |-> d,
     has_resultType |-> rt # "", resultType |-> rt, has_result |-> r, result |-> res]

NotJsonBodies ==
    {[is_json |-> FALSE, json_error |-> e, text |-> "<html>502 Bad Gateway</html>",
      has_data |-> FALSE, has_resultType |-> FALSE, resultType |-> "",
      has_result |-> FALSE, result |-> <<>>] :
        e \in {"requests.JSONDecodeError", "json.JSONDecodeError",
               "simplejson.JSONDecodeError"}}

OneSeries(key) ==
    [label_key |-> key, labels |-> << <<"app", "nginx">> >>, has_values |-> TRUE,
     values |-> <<Sample(1), Sample(2)>>]

BasicBodies ==
    NotJsonBodies
    \cup {JsonBody(FALSE, "", FALSE, <<>>), JsonBody(TRUE, "", TRUE, <<>>),
          JsonBody(TRUE, "streams", FALSE, <<>>), JsonBody(TRUE, "scalar", FALSE, <<>>)}
    \cup {JsonBody(TRUE, rt, TRUE, <<>>) : rt \in ResultTypes}
    \cup {JsonBody(TRUE, rt, TRUE, <<OneSeries(KeyOf(rt))>>) : rt \in ResultTypes}
    \cup UNION {{JsonBody(TRUE, rt, TRUE, <<i>>) : i \in MalformedItems(KeyOf(rt))} :
                  rt \in {"streams", "matrix"}}

RichBodies ==
    UNION {{JsonBody(TRUE, rt, TRUE, r) : r \in SeqsUpTo(Items(KeyOf(rt)), MaxSeries)} :
              rt \in ResultTypes}

ConnectionFailure ==
    [kind |-> "connfail", status |-> 0, body |-> JsonBody(FALSE, "", FALSE, <<>>)]

Http(s, b) == [kind |-> "http", status |-> s, body |-> b]

\* 300 stands for the 3xx answers requests hands back (no Location to follow)
Statuses == {200, 204, 300, 404, 500, 503}

BasicResponses == {ConnectionFailure} \cup {Http(s, b) : s \in Statuses, b \in BasicBodies}

RichResponses ==
    {ConnectionFailure, Http(404, JsonBody(TRUE, "streams", TRUE, <<>>))}
    \cup {Http(200, b) : b \in RichBodies \cup BasicBodies}

(***************************************************************************)
(* Formatting the result list.                                             *)
(***************************************************************************)
\* datetime.fromtimestamp(sec).strftime('%Y-%m-%d %H:%M:%S'): the local wall-clock
\* time of the instant, to the second
FormatTs(sec) == LocalTime(sec)

\* lines 70 and 87: ", ".join([f'{k}="{v}"' for k, v in labels.items()])
RECURSIVE JoinLabels(_)
JoinLabels(labels) ==
    IF labels = <<>> THEN <<>>
    ELSE <<labels[1][1], "=\"", labels[1][2], "\"">>
         \o (IF Len(labels) = 1 THEN <<>> ELSE <<", ">> \o JoinLabels(Tail(labels)))

Json(type, logs, data) ==
    [kind |-> "json", text |-> <<>>, type |-> type, logs |-> logs, data |-> data]

FirstOf(S) == CHOOSE i \in S : \A j \in S : i <= j

\* lines 70-76 for one stream: the exception its fields raise, if any
StreamItemError(item) ==
    IF item.label_key # "stream" THEN Raise("KeyError", "'stream'")
    ELSE IF ~item.has_values THEN Raise("KeyError", "'values'")
    ELSE IF \E j \in 1..Len(item.values) : ~item.values[j].ts_ok
         THEN Raise("ValueError", "invalid literal for int() with base 10")
    ELSE Value(NoValue)

\* lines 71-76: one record per entry of the stream's values
StreamRecords(item) ==
    [j \in 1..Len(item.values) |->
        [ts |-> FormatTs(item.values[j].ts \div NsPerSecond),
         labels |-> JoinLabels(item.labels),
         line |-> item.values[j].text]]

\* lines 68-76: formatted_logs
RECURSIVE StreamLogs(_)
StreamLogs(res) ==
    IF res = <<>> THEN <<>> ELSE StreamRecords(res[1]) \o StreamLogs(Tail(res))

\* lines 68-76 reading only the first stream
FormatStreamsFirstOnly(res) ==
    LET bad == {i \in 1..Len(res) : StreamItemError(res[i]).exc # "none"}
    IN  IF bad # {} THEN StreamItemError(res[FirstOf(bad)])
        ELSE Value(Json("streams", StreamRecords(res[1]), <<>>))

\* lines 68-78
FormatStreams(res) ==
    LET bad == {i \in 1..Len(res) : StreamItemError(res[i]).exc # "none"}
    IN  IF bad # {} THEN StreamItemError(res[FirstOf(bad)])
        ELSE Value(Json("streams", StreamLogs(res), <<>>))

\* lines 87-88 for one series: the exception its fields raise, if any
MetricItemError(item) ==
    IF item.label_key # "metric" THEN Raise("KeyError", "'metric'")
    ELSE IF ~item.has_values THEN Raise("KeyError", "'values'")
    ELSE IF \E j \in 1..Len(item.values) : ~item.values[j].ts_ok
         THEN Raise("ValueError", "could not convert string to float")
    ELSE Value(NoValue)

\* lines 87-89 with the samples taken newest first
MetricEntryReversed(item) ==
    [labels |-> JoinLabels(item.labels),
     values |-> [j \in 1..Len(item.values) |->
                    [timestamp |-> FormatTs(item.values[Len(item.values) + 1 - j].ts),
                     value |-> item.values[Len(item.values) + 1 - j].text]]]

\* lines 87-89: {"labels": labels, "values": values}
MetricEntry(item) ==
    [labels |-> JoinLabels(item.labels),
     values |-> [j \in 1..Len(item.values) |->
                    [timestamp |-> FormatTs(item.values[j].ts),
                     value |-> item.values[j].text]]]

\* lines 85-91
FormatMetrics(res) ==
    LET bad == {i \in 1..Len(res) : MetricItemError(res[i]).exc # "none"}
    IN  IF bad # {} THEN MetricItemError(res[FirstOf(bad)])
        ELSE Value(Json("metrics", <<>>, [i \in 1..Len(res) |-> MetricEntry(res[i])]))

\* lines 63-94 with the metrics branch taking every type that is not "streams"
FormatBodyNoTypeGuard(d) ==
    IF ~d.has_data THEN Raise("KeyError", "'data'")
    ELSE IF ~d.has_resultType THEN Raise("KeyError", "'resultType'")
    ELSE IF d.resultType = "streams" THEN
        IF ~d.has_result THEN Raise("KeyError", "'result'")
        ELSE IF d.result = <<>> THEN
            Value(Text(<<"No log streams found for the given query and time range.">>))
        ELSE FormatStreams(d.result)
    ELSE
        IF ~d.has_result THEN Raise("KeyError", "'result'")
        ELSE IF d.result = <<>> THEN
            Value(Text(<<"No metric data found for the given query and time range.">>))
        ELSE FormatMetrics(d.result)

\* lines 63-94 with one message for both empty results
FormatBodyOneEmptyMessage(d) ==
    IF ~d.has_data THEN Raise("KeyError", "'data'")
    ELSE IF ~d.has_resultType THEN Raise("KeyError", "'resultType'")
    ELSE IF d.resultType = "streams" THEN
        IF ~d.has_result THEN Raise("KeyError", "'result'")
        ELSE IF d.result = <<>> THEN
            Value(Text(<<"No log streams found for the given query and time range.">>))
        ELSE FormatStreams(d.result)
    ELSE IF d.resultType \in {"matrix", "vector"} THEN
        IF ~d.has_result THEN Raise("KeyError", "'result'")
        ELSE IF d.result = <<>> THEN
            Value(Text(<<"No log streams found for the given query and time range.">>))
        ELSE FormatMetrics(d.result)
    ELSE Value(Text(<<"Loki query returned unsupported result type: ", d.resultType>>))

\* lines 63-94: the branch on data["data"]["resultType"]
FormatBody(d) ==
    IF ~d.has_data THEN Raise("KeyError", "'data'")
    ELSE IF ~d.has_resultType THEN Raise("KeyError", "'resultType'")
    ELSE IF d.resultType = "streams" THEN
        IF ~d.has_result THEN Raise("KeyError", "'result'")
        ELSE IF d.result = <<>> THEN
            Value(Text(<<"No log streams found for the given query and time range.">>))
        ELSE FormatStreams(d.result)
    ELSE IF d.resultType \in {"matrix", "vector"} THEN
        IF ~d.has_result THEN Raise("KeyError", "'result'")
        ELSE IF d.result = <<>> THEN
            Value(Text(<<"No metric data found for the given query and time range.">>))
        ELSE FormatMetrics(d.result)
    ELSE Value(Text(<<"Loki query returned unsupported result type: ", d.resultType>>))

\* line 58 raising for server errors only
RaisesForStatus5xx(status) == 500 <= status /\ status < 600

\* line 58: response.raise_for_status() raises HTTPError for 4xx and 5xx
RaisesForStatus(status) == 400 <= status /\ status < 600

\* lines 58-94: what the body of the try statement does with a response
Body(r) ==
    IF RaisesForStatus(r.status) THEN Raise("HTTPError", "Client or Server Error")
    ELSE IF ~r.body.is_json THEN Raise(r.body.json_error, "Expecting value")
    ELSE FormatBody(r.body)

(***************************************************************************)
(* query_loki_logs, step by step.                                          *)
(***************************************************************************)
\* lines 45-53
BuildParams(a, s, e) ==
    [query |-> a.query, limit |-> a.limit, start |-> s, end |-> e,
     direction |-> a.direction, interval |-> "1m"]

\* line 55
DebugLine(a) ==
    [url |-> api_url, query |-> a.query, time_range_minutes |-> a.time_range_minutes,
     limit |-> a.limit]

\* lines 39-41: a call starts and reads the clock twice
Call(argset, reads, jitters) ==
    /\ pc = "idle"
    /\ \E a \in argset, u \in {zone.at + r : r \in reads}, j \in jitters :
        /\ args' = a
        /\ end_time' = EndTime(u)
        /\ IF WindowOverflows(a.time_range_minutes)
           THEN /\ start_time' = 0
                /\ result' = Complete(Raise("OverflowError", "date value out of range"), "")
                /\ pc' = "done"
           ELSE /\ start_time' = StartTime(u + j, a.time_range_minutes)
                /\ result' = NoResult
                /\ pc' = "built"
    /\ stdout' = <<>>
    /\ requests' = <<>>
    /\ response' = <<>>
    /\ UNCHANGED <<zone, loop_pc, user_input, transcript>>

\* line 55: print, which may itself fail (standard output closed)
EmitDiagnostic ==
    /\ pc = "built"
    /\ \/ /\ stdout' = Append(stdout, DebugLine(args))
          /\ pc' = "printed"
          /\ UNCHANGED result
       \/ /\ result' = Complete(Raise("BrokenPipeError", "[Errno 32] Broken pipe"), "")
          /\ pc' = "done"
          /\ UNCHANGED stdout
    /\ UNCHANGED <<zone, args, end_time, start_time, requests, response,
                   loop_pc, user_input, transcript>>

\* line 57 wrapped in one retry after a connection failure
GetWithRetry(respset) ==
    /\ pc = "printed"
    /\ \E r \in respset :
        /\ requests' =
              IF r.kind = "connfail"
              THEN requests \o <<[url |-> api_url,
                                  params |-> BuildParams(args, start_time, end_time)],
                                 [url |-> api_url,
                                  params |-> BuildParams(args, start_time, end_time)]>>
              ELSE Append(requests, [url |-> api_url,
                                     params |-> BuildParams(args, start_time, end_time)])
        /\ response' = <<r>>
        /\ IF r.kind = "connfail"
           THEN /\ result' = Complete(Raise("ConnectionError", "Connection refused"), "")
                /\ pc' = "done"
           ELSE /\ pc' = "responded"
                /\ UNCHANGED result
    /\ UNCHANGED <<zone, args, end_time, start_time, stdout, loop_pc, user_input, transcript>>

\* line 57: requests.get
Get(respset) ==
    /\ pc = "printed"
    /\ \E r \in respset :
        /\ requests' = Append(requests, [url |-> api_url,
                                         params |-> BuildParams(args, start_time, end_time)])
        /\ response' = <<r>>
        /\ IF r.kind = "connfail"
           THEN /\ result' = Complete(Raise("ConnectionError", "Connection refused"), "")
                /\ pc' = "done"
           ELSE /\ pc' = "responded"
                /\ UNCHANGED result
    /\ UNCHANGED <<zone, args, end_time, start_time, stdout, loop_pc, user_input, transcript>>

\* lines 58-101
Process ==
    /\ pc = "responded"
    /\ result' = Complete(Body(response[1]), response[1].body.text)
    /\ pc' = "done"
    /\ UNCHANGED <<zone, args, end_time, start_time, stdout, requests, response,
                   loop_pc, user_input, transcript>>

\* the call is over: its frame is gone and the tool holds no state
Return ==
    /\ pc = "done"
    /\ pc' = "idle"
    /\ args' = NoArgs
    /\ end_time' = 0
    /\ start_time' = 0
    /\ stdout' = <<>>
    /\ requests' = <<>>
    /\ response' = <<>>
    /\ result' = NoResult
    /\ UNCHANGED <<zone, loop_pc, user_input, transcript>>

Init ==
    /\ zone \in Zones
    /\ pc = "idle"
    /\ args = NoArgs
    /\ end_time = 0
    /\ start_time = 0
    /\ stdout = <<>>
    /\ requests = <<>>
    /\ response = <<>>
    /\ result = NoResult
    /\ loop_pc = "prompt"
    /\ user_input = <<>>
    /\ transcript = <<>>

Next == Call(AllArgs, ClockReads, Jitters) \/ EmitDiagnostic \/ Get(BasicResponses) \/ Process \/ Return

\* every argument combination against a small set of backend behaviours
Spec == Init /\ [][Next]_vars

FormatNext == Call(DefaultArgs, {1800}, {0}) \/ EmitDiagnostic \/ Get(RichResponses) \/ Process \/ Return

\* the default arguments against every response body within the bounds
FormatSpec == Init /\ [][FormatNext]_vars

(***************************************************************************)
(* The interactive loop of agent.py and agent-azure.py (the two loops are  *)
(* the same statement for statement).  A line is the sequence of its       *)
(* characters.                                                             *)
(***************************************************************************)
ExitLine == <<"e", "x", "i", "t">>

Lines == {ExitLine, <<"E", "X", "I", "T">>, <<"E", "x", "i", "t">>,
          <<"e", "x", "i", "t", " ">>, <<"l", "o", "g", "s">>, <<>>}

LowerChar(c) ==
    CASE c = "E" -> "e" [] c = "X" -> "x" [] c = "I" -> "i" [] c = "T" -> "t"
      [] OTHER -> c

\* str.lower()
Lower(line) == [i \in 1..Len(line) |-> LowerChar(line[i])]

\* agent.py line 61 comparing the line as typed
IsExitCaseSensitive(line) == line = ExitLine

\* agent.py line 61, agent-azure.py line 68: user_input.lower() == 'exit'
IsExit(line) == Lower(line) = ExitLine

Event(e, line) == [ev |-> e, line |-> line]

LinesRead == Cardinality({i \in 1..Len(transcript) : transcript[i].ev = "read"})

\* agent.py lines 60-63: input() returns a line
ReadLine ==
    /\ loop_pc = "prompt"
    /\ LinesRead < MaxLines
    /\ \E l \in Lines :
        /\ user_input' = l
        /\ IF IsExit(l)
           THEN /\ transcript' = transcript \o <<Event("read", l), Event("goodbye", <<>>)>>
                /\ loop_pc' = "ended"
           ELSE /\ transcript' = Append(transcript, Event("read", l))
                /\ loop_pc' = "turn"
    /\ UNCHANGED tool_vars

\* agent.py line 60: input() raises EOFError at the end of standard input; the call
\* is outside the try statement, so the program ends with the exception
ReadEof ==
    /\ loop_pc = "prompt"
    /\ LinesRead < MaxLines
    /\ transcript' = Append(transcript, Event("EOFError", <<>>))
    /\ loop_pc' = "crashed"
    /\ UNCHANGED <<user_input>>
    /\ UNCHANGED tool_vars

\* agent.py line 67: agent_executor.invoke is entered
Invoke ==
    /\ loop_pc = "turn"
    /\ transcript' = Append(transcript, Event("invoke", user_input))
    /\ loop_pc' = "running"
    /\ UNCHANGED <<user_input>>
    /\ UNCHANGED tool_vars

\* agent.py lines 67-74: the turn ends with the answer printed, or with an
\* exception (raised by invoke, or by result["output"]) printed by the handler
Finish ==
    /\ loop_pc = "running"
    /\ \E how \in {"answer", "error"} :
        transcript' = Append(transcript, Event(how, user_input))
    /\ loop_pc' = "prompt"
    /\ UNCHANGED <<user_input>>
    /\ UNCHANGED tool_vars

LoopNext == ReadLine \/ ReadEof \/ Invoke \/ Finish

\* the interactive loop alone
LoopSpec == Init /\ [][LoopNext]_vars

(***************************************************************************)
(* Properties.                                                             *)
(***************************************************************************)
Range(f) == {f[i] : i \in DOMAIN f}

\* a response the body of which the tool went on to read as JSON
Successful(r) == r.kind = "http" /\ r.status \in 200..299 /\ r.body.is_json

\* the string of line 97
IsTransportError(res) ==
    /\ res.status = "returned"
    /\ res.value.kind = "text"
    /\ Len(res.value.text) >= 1
    /\ res.value.text[1] = "Error connecting to Loki or API error: "

\* str is the pairs of labels written key="value" and separated by ", "
IsJoined(str, labels) ==
    LET n == Len(labels)
    IN  /\ Len(str) = IF n = 0 THEN 0 ELSE 5 * n - 1
        /\ \A k \in 1..n :
            /\ str[5 * k - 4] = labels[k][1]
            /\ str[5 * k - 3] = "=\""
            /\ str[5 * k - 2] = labels[k][2]
            /\ str[5 * k - 1] = "\""
            /\ k < n => str[5 * k] = ", "

\* the local wall-clock second of instant u
WallClock(u) == IF u < zone.at THEN u ELSE u + zone.shift

\* every entry has its label object, its values, and timestamps that parse
WellFormed(res, key) ==
    \A i \in 1..Len(res) :
        /\ res[i].label_key = key
        /\ res[i].has_values
        /\ \A j \in 1..Len(res[i].values) : res[i].values[j].ts_ok

RECURSIVE PairsBefore(_, _)
\* the number of (timestamp, line) pairs in the streams before the i-th
PairsBefore(res, i) ==
    IF i <= 1 THEN 0 ELSE PairsBefore(res, i - 1) + Len(res[i - 1].values)

\* C1: whatever the arguments and whatever the backend does (connection failure,
\* error status, a body that is not JSON, a JSON body without data, resultType,
\* result, stream, metric or values, a timestamp that does not parse), a call that
\* is over has returned a string; no exception has left the tool.
C1_NoExceptionPropagates ==
    pc = "done" => result.status = "returned" /\ result.value.kind \in {"text", "json"}

\* C1 witness: a body with an unparsable timestamp ended in the catch-all message
C1_Witness ==
    /\ pc = "done"
    /\ response # <<>>
    /\ response[1].kind = "http"
    /\ response[1].body.result # <<>>
    /\ \E j \in 1..Len(response[1].body.result[1].values) :
            ~response[1].body.result[1].values[j].ts_ok
    /\ result.status = "returned"
    /\ result.value.text[1] = "An unexpected error occurred: "

\* C2: after a transport-level failure of the GET the call returns the error string
\* of line 97, which contains the configured base URL; nothing is raised.
C2_TransportErrorNamesUrl ==
    pc = "done" /\ response # <<>> /\ response[1].kind = "connfail"
        => /\ IsTransportError(result)
           /\ \E i \in 1..Len(result.value.text) : result.value.text[i] = LOKI_URL

\* C2 witness: a call that ended on a refused connection
C2_Witness ==
    /\ pc = "done"
    /\ response # <<>>
    /\ response[1].kind = "connfail"
    /\ result.status = "returned"

\* C3 as claimed: every status outside 2xx gives the transport error string.
C3_AsClaimed ==
    pc = "done" /\ response # <<>> /\ response[1].kind = "http"
        /\ response[1].status \notin 200..299
        => IsTransportError(result)

\* C3: every 4xx or 5xx status gives the transport error string, whatever the body
\* holds; the body is never turned into a Streams, Metrics, Empty or
\* unsupported-type outcome.
C3_ErrorStatusIsTransportError ==
    pc = "done" /\ response # <<>> /\ response[1].kind = "http"
        /\ response[1].status \in 400..599
        => IsTransportError(result)

\* C3 witness: a 404 whose body is a well-formed streams answer
C3_Witness ==
    /\ pc = "done"
    /\ response # <<>>
    /\ response[1].kind = "http"
    /\ response[1].status = 404
    /\ response[1].body.is_json
    /\ response[1].body.resultType = "streams"
    /\ response[1].body.result # <<>>
    /\ IsTransportError(result)

\* C4: a successful response with an empty result list gives exactly "No log streams
\* found for the given query and time range." for streams and exactly "No metric
\* data found for the given query and time range." for matrix and vector.
C4_EmptyResultMessages ==
    \A r \in {x \in Range(response) : Successful(x)} :
        pc = "done" /\ r.body.has_data /\ r.body.has_resultType /\ r.body.has_result
            /\ r.body.result = <<>>
        => /\ r.body.resultType = "streams" =>
                result = Returned(Text(
                    <<"No log streams found for the given query and time range.">>))
           /\ r.body.resultType \in {"matrix", "vector"} =>
                result = Returned(Text(
                    <<"No metric data found for the given query and time range.">>))

\* C4 witness: an empty vector answer
C4_Witness ==
    /\ pc = "done"
    /\ response # <<>>
    /\ Successful(response[1])
    /\ response[1].body.resultType = "vector"
    /\ response[1].body.has_result
    /\ response[1].body.result = <<>>
    /\ result.value.text = <<"No metric data found for the given query and time range.">>

\* C5: a successful response whose resultType is none of streams, matrix, vector
\* gives "Loki query returned unsupported result type: <type>" with the type's
\* name, whatever the result list holds (also when there is none).
C5_UnsupportedResultType ==
    \A r \in {x \in Range(response) : Successful(x)} :
        pc = "done" /\ r.body.has_data /\ r.body.has_resultType
            /\ r.body.resultType \notin {"streams", "matrix", "vector"}
        => result = Returned(Text(<<"Loki query returned unsupported result type: ",
                                    r.body.resultType>>))

\* C5 witness: a scalar answer with a full result list
C5_Witness ==
    /\ pc = "done"
    /\ response # <<>>
    /\ Successful(response[1])
    /\ response[1].body.resultType = "scalar"
    /\ Len(response[1].body.result) = MaxSeries
    /\ result.value.text = <<"Loki query returned unsupported result type: ", "scalar">>

\* C6: for a positive time_range_minutes the start and end sent to the backend
\* satisfy start < end, and end - start is time_range_minutes minutes less the time
\* between the two clock readings.
C6_WindowAsClaimed ==
    Len(requests) >= 1 /\ args.time_range_minutes > 0
        => /\ requests[1].params.start < requests[1].params.end
           /\ \E j \in Jitters :
                requests[1].params.end - requests[1].params.start
                    = args.time_range_minutes * 60 - j

\* C7: a successful matrix or vector response with a non-empty, well-formed result
\* list gives Metrics with one entry per series in the backend's order; an entry's
\* labels are the series' labels written key="value", and its values are the
\* series' samples, one for one and in order, each with its formatted timestamp.
C7_MetricsOnePerSeries ==
    \A r \in {x \in Range(response) : Successful(x)} :
        pc = "done" /\ r.body.has_data /\ r.body.has_result
            /\ r.body.resultType \in {"matrix", "vector"}
            /\ r.body.result # <<>> /\ WellFormed(r.body.result, "metric")
        => /\ result.status = "returned"
           /\ result.value.kind = "json"
           /\ result.value.type = "metrics"
           /\ Len(result.value.data) = Len(r.body.result)
           /\ \A i \in 1..Len(r.body.result) :
                LET series == r.body.result[i]
                    entry == result.value.data[i]
                IN  /\ IsJoined(entry.labels, series.labels)
                    /\ Len(entry.values) = Len(series.values)
                    /\ \A j \in 1..Len(series.values) :
                        /\ entry.values[j].value = series.values[j].text
                        /\ entry.values[j].timestamp = WallClock(series.values[j].ts)

\* C7 witness: one matrix series {app="nginx"} with two samples, newest first
C7_Witness ==
    /\ pc = "done"
    /\ response # <<>>
    /\ Successful(response[1])
    /\ response[1].body.resultType = "matrix"
    /\ Len(response[1].body.result) = 1
    /\ response[1].body.result[1].labels = << <<"app", "nginx">> >>
    /\ response[1].body.result[1].values = <<Sample(2), Sample(1)>>
    /\ result.value.kind = "json"
    /\ Len(result.value.data) = 1
    /\ result.value.data[1].labels = <<"app", "=\"", "nginx", "\"">>
    /\ Len(result.value.data[1].values) = 2
    /\ result.value.data[1].values[1].value = "second"

\* C8: a successful streams response with a non-empty, well-formed result list gives
\* Streams with one record per (timestamp, line) pair of every stream: streams in
\* the backend's order, each stream's pairs in their order, every record carrying
\* its stream's labels written key="value"; no pairs at all give no records.
C8_StreamsOnePerPair ==
    \A r \in {x \in Range(response) : Successful(x)} :
        pc = "done" /\ r.body.has_data /\ r.body.has_result
            /\ r.body.resultType = "streams"
            /\ r.body.result # <<>> /\ WellFormed(r.body.result, "stream")
        => /\ result.status = "returned"
           /\ result.value.kind = "json"
           /\ result.value.type = "streams"
           /\ Len(result.value.logs) = PairsBefore(r.body.result, Len(r.body.result) + 1)
           /\ \A i \in 1..Len(r.body.result) :
                \A j \in 1..Len(r.body.result[i].values) :
                    LET rec == result.value.logs[PairsBefore(r.body.result, i) + j]
                        pair == r.body.result[i].values[j]
                    IN  /\ rec.line = pair.text
                        /\ rec.ts = WallClock(pair.ts \div 1000000000)
                        /\ IsJoined(rec.labels, r.body.result[i].labels)

\* C8 witness: two streams with different labels, the first with its pairs newest
\* first, give three records in that order
C8_Witness ==
    /\ pc = "done"
    /\ response # <<>>
    /\ Successful(response[1])
    /\ response[1].body.resultType = "streams"
    /\ Len(response[1].body.result) = 2
    /\ response[1].body.result[1].values = <<Sample(2), Sample(1)>>
    /\ response[1].body.result[1].labels = << <<"app", "nginx">> >>
    /\ response[1].body.result[2].values = <<Sample(1)>>
    /\ Len(response[1].body.result[2].labels) = 2
    /\ Len(result.value.logs) = 3
    /\ result.value.logs[1].line = "second"
    /\ result.value.logs[3].labels[1] = "job"

\* every line that is not an exit has had its one agent turn, begun and ended
\* before the next line was read
OneTurnPerLine ==
    \A i \in 1..Len(transcript) :
        LET e == transcript[i]
        IN  /\ e.ev = "read" /\ Lower(e.line) # ExitLine /\ i < Len(transcript)
                => transcript[i + 1] = Event("invoke", e.line)
            /\ e.ev = "invoke"
                => /\ i > 1 /\ transcript[i - 1] = Event("read", e.line)
                   /\ i < Len(transcript) => transcript[i + 1].ev \in {"answer", "error"}
            /\ e.ev \in {"answer", "error"}
                => /\ i > 1 /\ transcript[i - 1].ev = "invoke"
                   /\ i < Len(transcript) => transcript[i + 1].ev \in {"read", "EOFError"}

\* C9 as claimed: the loop is over exactly when the line read is the literal
\* "exit", and every other line has its one completed agent turn.
C9_AsClaimed ==
    /\ loop_pc \in {"ended", "crashed"}
            <=> (transcript # <<>> /\ user_input = <<"e", "x", "i", "t">>)
    /\ OneTurnPerLine

\* C9: the loop is over exactly when the line read, lower-cased, is "exit" (the
\* program says goodbye) or input() met the end of standard input (EOFError leaves
\* the program); every other line has exactly one agent turn, which is begun and
\* completed, by an answer or by a printed exception, before the next line is
\* read; a failed turn never ends the loop.
C9_LoopEnds ==
    /\ loop_pc = "ended"
            <=> (transcript # <<>> /\ transcript[Len(transcript)].ev = "goodbye")
    /\ loop_pc = "ended" => Lower(user_input) = <<"e", "x", "i", "t">>
    /\ (\E i \in 1..Len(transcript) :
            transcript[i].ev = "read" /\ Lower(transcript[i].line) = <<"e", "x", "i", "t">>)
            => loop_pc = "ended"
    /\ loop_pc = "crashed"
            <=> (transcript # <<>> /\ transcript[Len(transcript)].ev = "EOFError")
    /\ (transcript # <<>> /\ transcript[Len(transcript)].ev \in {"answer", "error"})
            => loop_pc = "prompt"
    /\ OneTurnPerLine

\* C9 witness: a turn failed, the loop went on, and "EXIT" then ended it
C9_Witness ==
    /\ loop_pc = "ended"
    /\ user_input = <<"E", "X", "I", "T">>
    /\ \E i \in 1..Len(transcript) : transcript[i].ev = "error"

====
